---- MODULE Spec2Model ----
(***************************************************************************)
(* Model of the lazy-loading Image component of lazy-loading-with-hooks:   *)
(*   - useImageOnLoad          (src/README.md, lines 118-136)              *)
(*   - useIntersectionObserver (src/unnamed/part_000, lines 211-241)       *)
(*   - Image                   (src/src/App.jsx, lines 51-93)              *)
(* One component instance is modelled.  The hook's argument (a ref object) *)
(* and the element each ref is attached to are inputs chosen by the host   *)
(* render; intersection batches and the load event are inputs chosen by    *)
(* the browser.                                                            *)
(***************************************************************************)
EXTENDS Naturals, Sequences, FiniteSets

\* ---------------------------------------------------------------- bounds
NumNodes == 2
NumRefs == 2
MaxObservers == 2
MaxBatch == 2

\* ------------------------------------------------------------- constants
\* `undefined` / `null` values of the three kinds of reference
NoNode == 0
NoRef == 0
NoObserver == 0

Nodes == 1..NumNodes
Refs == 1..NumRefs

\* an IntersectionObserverEntry, reduced to the fields the hook reads or
\* hands through; target NoNode marks the `undefined` initial entry
Snapshots == [isIntersecting : BOOLEAN, target : Nodes]
NoEntry == [isIntersecting |-> FALSE, target |-> NoNode]

\* the non-empty batches the browser may deliver for an observer on node n
Batches(n) ==
  UNION {[1..k -> [isIntersecting : BOOLEAN, target : {n}]] : k \in 1..MaxBatch}

VARIABLES
  pc,               \* "firstRender" | "effectPending" | "idle" | "unmounted"
  elementRef,       \* the ref object handed to useIntersectionObserver
  refCurrent,       \* .current of every ref object
  observerCurrent,  \* observer.current (index into observers)
  observers,        \* every IntersectionObserver created: the node handed
                    \* to observe() and whether it still watches it
  cleanup,          \* the observer captured by the registered effect cleanup
  entry,            \* useState: entry
  isLoaded,         \* useState: isLoaded
  highResLoadFired, \* the mounted high-res <img> has dispatched `load`
  seenIntersecting, \* history: some delivered snapshot had isIntersecting
  reloaded,         \* history: handleImageOnLoad ran while isLoaded was true
  lastDelivered     \* history: first and last entry of the last batch

vars == <<pc, elementRef, refCurrent, observerCurrent, observers, cleanup,
          entry, isLoaded, highResLoadFired, seenIntersecting, reloaded,
          lastDelivered>>

\* ------------------------------------------------------- useImageOnLoad
handleImageOnLoadToggle(prev) == ~prev
handleImageOnLoadNoop(prev) == prev
\* const handleImageOnLoad = () => setIsLoaded(true)
handleImageOnLoad(prev) == TRUE

transitionStylesBothOpaque(l) ==
  [lowRes  |-> [opacity |-> 1,
                filter |-> "blur(2px)",
                transition |-> "opacity 500ms ease-out 50ms"],
   highRes |-> [opacity |-> IF l THEN 1 ELSE 0,
                transition |-> "opacity 500ms ease-in 50ms"]]
transitionStylesSwapped(l) ==
  [lowRes  |-> [opacity |-> IF l THEN 1 ELSE 0,
                filter |-> "blur(2px)",
                transition |-> "opacity 500ms ease-out 50ms"],
   highRes |-> [opacity |-> IF l THEN 0 ELSE 1,
                transition |-> "opacity 500ms ease-in 50ms"]]
transitionStyles(l) ==
  [lowRes  |-> [opacity |-> IF l THEN 0 ELSE 1,
                filter |-> "blur(2px)",
                transition |-> "opacity 500ms ease-out 50ms"],
   highRes |-> [opacity |-> IF l THEN 1 ELSE 0,
                transition |-> "opacity 500ms ease-in 50ms"]]

\* ---------------------------------------------- useIntersectionObserver
\* setEntry(value): React drops a state update of an unmounted component
setEntry(p, old, new) == IF p = "unmounted" THEN old ELSE new

updateEntryLast(entries) == entries[Len(entries)]
\* setEntry(entries[0])
updateEntry(entries) == entries[1]

isVisibleAnyEntry(e) == e # NoEntry
\* isVisible: !!entry?.isIntersecting
isVisible(e) == e # NoEntry /\ e.isIntersecting

disconnectNoop(obs, i) == obs
\* IntersectionObserver.disconnect(): the observer stops watching its target
disconnect(obs, i) ==
  IF i = NoObserver THEN obs ELSE [obs EXCEPT ![i].connected = FALSE]

\* new IntersectionObserver(updateEntry, options) followed by observe(node)
observeNew(obs, node) == Append(obs, [target |-> node, connected |-> TRUE])

\* elementRef?.current
nodeOf(ref, cur) == IF ref = NoRef THEN NoNode ELSE cur[ref]

\* the observers that still watch a target
ActiveIn(obs) == {i \in 1..Len(obs) : obs[i].connected}
ActiveObservers == ActiveIn(observers)

\* ----------------------------------------------------------------- Image
highResRenderedAlways(e) == TRUE
\* {isVisible && <img src={highResSrc} ... onLoad={handleImageOnLoad} />}
highResRendered(e) == isVisible(e)

shouldRenderHighFidelity == pc # "unmounted" /\ highResRendered(entry)

\* ------------------------------------------------------------------ Init
\* The state after the first render has been committed: the refs are
\* attached (or not) by the host, no effect has run yet.
Init ==
  /\ pc = "firstRender"
  /\ elementRef \in Refs \cup {NoRef}
  /\ refCurrent \in [Refs -> Nodes \cup {NoNode}]
  /\ observerCurrent = NoObserver
  /\ observers = <<>>
  /\ cleanup = NoObserver
  /\ entry = NoEntry
  /\ isLoaded = FALSE
  /\ highResLoadFired = FALSE
  /\ seenIntersecting = FALSE
  /\ reloaded = FALSE
  /\ lastDelivered = [first |-> NoEntry, last |-> NoEntry]

\* --------------------------------------------------------------- actions
RunEffectNoGuard ==
  /\ pc \in {"firstRender", "effectPending"}
  /\ LET cleaned == disconnect(observers, cleanup)
         node == nodeOf(elementRef, refCurrent)
     IN /\ observers' = observeNew(disconnect(cleaned, observerCurrent), node)
        /\ observerCurrent' = Len(observers) + 1
        /\ cleanup' = Len(observers) + 1
  /\ pc' = "idle"
  /\ UNCHANGED <<elementRef, refCurrent, entry, isLoaded, highResLoadFired,
                 seenIntersecting,
                 reloaded, lastDelivered>>
RunEffectNoCleanup ==
  /\ pc \in {"firstRender", "effectPending"}
  /\ LET node == nodeOf(elementRef, refCurrent)
     IN IF node = NoNode
        THEN /\ cleanup' = NoObserver
             /\ UNCHANGED <<observers, observerCurrent>>
        ELSE /\ observers' = observeNew(disconnect(observers, observerCurrent), node)
             /\ observerCurrent' = Len(observers) + 1
             /\ cleanup' = Len(observers) + 1
  /\ pc' = "idle"
  /\ UNCHANGED <<elementRef, refCurrent, entry, isLoaded, highResLoadFired,
                 seenIntersecting,
                 reloaded, lastDelivered>>
RunEffectResetsEntry ==
  /\ pc \in {"firstRender", "effectPending"}
  /\ LET cleaned == disconnect(observers, cleanup)
         node == nodeOf(elementRef, refCurrent)
     IN IF node = NoNode
        THEN /\ observers' = cleaned
             /\ cleanup' = NoObserver
             /\ UNCHANGED observerCurrent
        ELSE /\ observers' = observeNew(disconnect(cleaned, observerCurrent), node)
             /\ observerCurrent' = Len(observers) + 1
             /\ cleanup' = Len(observers) + 1
  /\ entry' = IF cleanup # NoObserver THEN NoEntry ELSE entry
  /\ pc' = "idle"
  /\ UNCHANGED <<elementRef, refCurrent, isLoaded, highResLoadFired,
                 seenIntersecting,
                 reloaded, lastDelivered>>
\* useEffect(..., [elementRef]): React first runs the cleanup the previous
\* run returned, then the effect body.
RunEffect ==
  /\ pc \in {"firstRender", "effectPending"}
  /\ LET cleaned == disconnect(observers, cleanup)
         node == nodeOf(elementRef, refCurrent)
     IN IF node = NoNode
        THEN /\ observers' = cleaned
             /\ cleanup' = NoObserver
             /\ UNCHANGED observerCurrent
        ELSE /\ observers' = observeNew(disconnect(cleaned, observerCurrent), node)
             /\ observerCurrent' = Len(observers) + 1
             /\ cleanup' = Len(observers) + 1
  /\ pc' = "idle"
  /\ UNCHANGED <<elementRef, refCurrent, entry, isLoaded, highResLoadFired,
                 seenIntersecting,
                 reloaded, lastDelivered>>

\* The host renders again: it may hand a different ref object to the hook
\* and the commit may attach the refs to different elements.  The effect is
\* scheduled only when the ref object (the dependency) changed.
Render(r, rc) ==
  /\ pc = "idle"
  /\ r # elementRef \/ rc # refCurrent
  /\ Len(observers) < MaxObservers
  /\ elementRef' = r
  /\ refCurrent' = rc
  /\ pc' = IF r # elementRef THEN "effectPending" ELSE "idle"
  /\ UNCHANGED <<observerCurrent, observers, cleanup, entry, isLoaded,
                 highResLoadFired, seenIntersecting,
                 reloaded, lastDelivered>>

DeliverSnapshotMarksLoaded(i, batch) ==
  /\ i \in ActiveObservers
  /\ batch \in Batches(observers[i].target)
  /\ entry' = setEntry(pc, entry, updateEntry(batch))
  /\ lastDelivered' = [first |-> batch[1], last |-> batch[Len(batch)]]
  /\ seenIntersecting' =
       (seenIntersecting \/ \E k \in 1..Len(batch) : batch[k].isIntersecting)
  /\ highResLoadFired' =
       (highResRendered(entry) /\ highResRendered(entry') /\ highResLoadFired)
  /\ isLoaded' = (isLoaded \/ isVisible(entry'))
  /\ UNCHANGED <<pc, elementRef, refCurrent, observerCurrent, observers,
                 cleanup, reloaded>>
\* The browser delivers a batch of entries to the callback of observer i.
\* The observer of an unmounted component stays connected until the effect
\* cleanup has run, and its callback still runs.
DeliverSnapshot(i, batch) ==
  /\ i \in ActiveObservers
  /\ batch \in Batches(observers[i].target)
  /\ entry' = setEntry(pc, entry, updateEntry(batch))
  /\ lastDelivered' = [first |-> batch[1], last |-> batch[Len(batch)]]
  /\ seenIntersecting' =
       (seenIntersecting \/ \E k \in 1..Len(batch) : batch[k].isIntersecting)
  \* a high-res <img> that stays mounted keeps its element; one that is
  \* mounted by this render is a fresh element that has not loaded yet
  /\ highResLoadFired' =
       (highResRendered(entry) /\ highResRendered(entry') /\ highResLoadFired)
  /\ UNCHANGED <<pc, elementRef, refCurrent, observerCurrent, observers,
                 cleanup, isLoaded, reloaded>>

\* The mounted high-res <img> finishes loading: onLoad={handleImageOnLoad}
HighResOnLoad ==
  /\ shouldRenderHighFidelity
  /\ ~highResLoadFired
  /\ isLoaded' = handleImageOnLoad(isLoaded)
  /\ highResLoadFired' = TRUE
  /\ reloaded' = (reloaded \/ isLoaded)
  /\ UNCHANGED <<pc, elementRef, refCurrent, observerCurrent, observers,
                 cleanup, entry, seenIntersecting, lastDelivered>>

\* The component is removed: the commit takes the elements out of the
\* document and detaches the refs.  The cleanup of the effect is a passive
\* effect: React runs it after the commit (UnmountCleanup).
Unmount ==
  /\ pc = "idle"
  /\ pc' = "unmounted"
  /\ refCurrent' = [r \in Refs |-> NoNode]
  /\ highResLoadFired' = FALSE
  /\ UNCHANGED <<elementRef, observerCurrent, observers, cleanup, entry,
                 isLoaded, seenIntersecting, reloaded, lastDelivered>>

UnmountCleanupKeepsObserver ==
  /\ pc = "unmounted"
  /\ cleanup # NoObserver
  /\ cleanup' = NoObserver
  /\ UNCHANGED <<pc, elementRef, refCurrent, observerCurrent, observers,
                 entry, isLoaded, highResLoadFired, seenIntersecting,
                 reloaded, lastDelivered>>
\* React runs the cleanup the last effect run returned:
\* () => currentObserver.disconnect()
UnmountCleanup ==
  /\ pc = "unmounted"
  /\ cleanup # NoObserver
  /\ observers' = disconnect(observers, cleanup)
  /\ cleanup' = NoObserver
  /\ UNCHANGED <<pc, elementRef, refCurrent, observerCurrent, entry,
                 isLoaded, highResLoadFired, seenIntersecting, reloaded,
                 lastDelivered>>

Next ==
  \/ RunEffect
  \* one commit re-attaches at most one ref
  \/ \E r \in Refs \cup {NoRef}, q \in Refs, n \in Nodes \cup {NoNode} :
       Render(r, [refCurrent EXCEPT ![q] = n])
  \/ \E i \in ActiveObservers :
       \E b \in Batches(observers[i].target) : DeliverSnapshot(i, b)
  \/ HighResOnLoad
  \/ Unmount
  \/ UnmountCleanup

Spec == Init /\ [][Next]_vars

\* The browser eventually reports the load of a high-res <img> that stays
\* mounted, and React eventually flushes the cleanup of an unmounted
\* component.
SpecLive == Spec /\ WF_vars(HighResOnLoad) /\ WF_vars(UnmountCleanup)

TypeOK ==
  /\ pc \in {"firstRender", "effectPending", "idle", "unmounted"}
  /\ elementRef \in Refs \cup {NoRef}
  /\ refCurrent \in [Refs -> Nodes \cup {NoNode}]
  /\ observerCurrent \in 0..Len(observers)
  /\ cleanup \in 0..Len(observers)
  /\ observers \in Seq([target : Nodes, connected : BOOLEAN])
  /\ Len(observers) <= MaxObservers
  /\ entry \in Snapshots \cup {NoEntry}
  /\ isLoaded \in BOOLEAN
  /\ highResLoadFired \in BOOLEAN
  /\ seenIntersecting \in BOOLEAN
  /\ reloaded \in BOOLEAN
  /\ lastDelivered \in [first : Snapshots \cup {NoEntry},
                        last : Snapshots \cup {NoEntry}]

\* ================================================================ claims
lowResStyle == transitionStyles(isLoaded).lowRes
hightResStyle == transitionStyles(isLoaded).highRes

\* C1 (as stated): once the high-res image is rendered it stays rendered in
\* every later state of the live instance, also after a snapshot with
\* isIntersecting = false.
C1_StaysRendered ==
  [][(shouldRenderHighFidelity /\ pc' # "unmounted")
       => shouldRenderHighFidelity']_vars

\* C2: as long as no delivered snapshot had isIntersecting = true, the
\* high-res image is not rendered, whatever binds, rebinds and
\* non-intersecting snapshots have happened.
C2_NotRenderedBeforeIntersecting ==
  ~seenIntersecting => ~shouldRenderHighFidelity

C2_Witness ==
  /\ ~seenIntersecting
  /\ entry # NoEntry
  /\ Len(observers) >= 2
  /\ pc = "idle"

\* C3: in every reachable state at most one observer of the instance is
\* still watching a target.
C3_AtMostOneObservation == Cardinality(ActiveObservers) <= 1

C3_Witness ==
  /\ Len(observers) >= 2
  /\ Cardinality(ActiveObservers) = 1
  /\ observers[1].target # observers[2].target

\* C4: a step that binds a new element B while an observation of another
\* element A is active leaves exactly one active observation, the new one,
\* watching B; and every change of entry is a delivery by the observer that
\* is current and connected, about the element it watches.
C4_RebindWatchesOnlyNew ==
  [][/\ (/\ Len(observers') > Len(observers)
         /\ \E i \in ActiveObservers :
              observers[i].target # nodeOf(elementRef, refCurrent))
        => /\ ActiveIn(observers') = {Len(observers')}
           /\ observers'[Len(observers')].target = nodeOf(elementRef, refCurrent)
           /\ observerCurrent' = Len(observers')
     /\ (entry' # entry)
        => /\ observerCurrent \in ActiveObservers
           /\ entry'.target = observers[observerCurrent].target
    ]_vars

C4_Witness ==
  /\ Len(observers) >= 2
  /\ observers[1].target # observers[2].target
  /\ ActiveObservers = {2}
  /\ entry # NoEntry
  /\ entry.target = observers[2].target

\* C5: once isLoaded is true it is true in every later state.
C5_LoadedMonotonic == [][isLoaded => isLoaded']_vars

\* loaded, and the high-res <img> has been unmounted and mounted again
C5_Witness ==
  /\ isLoaded
  /\ shouldRenderHighFidelity
  /\ ~highResLoadFired

\* C6 (as stated): in every state after the component is unmounted no
\* observer of the instance is watching a target.
C6_NoObservationAfterTeardown ==
  pc = "unmounted" => ActiveObservers = {}

\* C6 (amended): after the unmount React runs the effect cleanup; once it
\* has run (or when none was registered) no observer of the instance is
\* watching a target, and every unmount leads to such a state.
C6_DisposedAfterCleanup ==
  /\ []((pc = "unmounted" /\ cleanup = NoObserver) => ActiveObservers = {})
  /\ (pc = "unmounted") ~> (pc = "unmounted" /\ ActiveObservers = {})

\* unmounted, the cleanup has run and has disconnected an observer
C6_Witness ==
  /\ pc = "unmounted"
  /\ cleanup = NoObserver
  /\ Len(observers) >= 1
  /\ ActiveObservers = {}
  /\ entry # NoEntry

\* the instance is alive and its observation has been disposed, or it never
\* had one: no cleanup is registered and nothing is observed
Disposed ==
  /\ pc = "idle"
  /\ cleanup = NoObserver
  /\ ActiveObservers = {}

\* C7 (as stated): after the observation has been disposed, or when none
\* was ever bound, isVisible is false.
C7_DisposedNotVisible == Disposed => ~isVisible(entry)

\* C7 (amended): disposing (a step that disconnects an observer or unmounts
\* the component) leaves entry, and so isVisible, unchanged; isVisible is
\* false as long as no observation was ever bound.
C7_DisposeKeepsEntry ==
  /\ [](Len(observers) = 0 => ~isVisible(entry))
  /\ [][((\E i \in ActiveObservers : i \notin ActiveIn(observers'))
          \/ pc' = "unmounted")
        => entry' = entry]_vars

C7_Witness ==
  /\ Disposed
  /\ Len(observers) >= 1
  /\ isVisible(entry)

\* C8 (as stated): no reachable state of the live instance has isVisible
\* false and isLoaded true.
C8_NotLoadedWhileInvisible ==
  ~(pc # "unmounted" /\ ~isVisible(entry) /\ isLoaded)

\* C8 (amended): isLoaded is true only after a snapshot with
\* isIntersecting = true has been delivered.
C8_LoadedOnlyAfterIntersecting == isLoaded => seenIntersecting

C8_Witness ==
  /\ pc = "idle"
  /\ isLoaded
  /\ ~isVisible(entry)
  /\ ActiveObservers # {}

\* C9: if from some point on the high-res image stays rendered, and the
\* browser delivers its load event, then eventually isLoaded is true, the
\* high-res layer is opaque and the low-res layer is transparent.
C9_EventuallyCrossfaded ==
  <>[]shouldRenderHighFidelity
    => <>(isLoaded /\ hightResStyle.opacity = 1 /\ lowResStyle.opacity = 0)

C9_Witness ==
  /\ shouldRenderHighFidelity
  /\ highResLoadFired
  /\ isLoaded
  /\ hightResStyle.opacity = 1
  /\ lowResStyle.opacity = 0

\* C10: in the state after construction, before any event, the high-res
\* image is not rendered, isLoaded is false, the low-res style is opaque
\* and blurred and the high-res style is transparent.
C10_InitialState ==
  pc = "firstRender"
    => /\ ~shouldRenderHighFidelity
       /\ ~isLoaded
       /\ lowResStyle.opacity = 1
       /\ lowResStyle.filter = "blur(2px)"
       /\ hightResStyle.opacity = 0

C10_Witness ==
  /\ pc = "firstRender"
  /\ nodeOf(elementRef, refCurrent) # NoNode
  /\ ~isLoaded

\* C11: the derived style depends on isLoaded alone and exactly one layer
\* is opaque: not loaded, the low-res layer has opacity 1 and is blurred and
\* the high-res layer has opacity 0; loaded, the low-res layer has opacity 0
\* and the high-res layer opacity 1.
C11_ExactlyOneLayerOpaque ==
  /\ lowResStyle.opacity + hightResStyle.opacity = 1
  /\ ~isLoaded => /\ lowResStyle.opacity = 1
                  /\ lowResStyle.filter = "blur(2px)"
                  /\ hightResStyle.opacity = 0
  /\ isLoaded => /\ lowResStyle.opacity = 0
                 /\ hightResStyle.opacity = 1

C11_Witness ==
  /\ isLoaded
  /\ ~isVisible(entry)
  /\ lowResStyle.opacity = 0
  /\ hightResStyle.opacity = 1
  /\ pc = "idle"

\* C12: as long as no effect run has found a real element in the ref, no
\* observer is watching anything, no observer or cleanup is held, and entry
\* is absent, however many times the effect has run with an absent target.
C12_AbsentTargetNoObservation ==
  (\A i \in 1..Len(observers) : observers[i].target = NoNode)
    => /\ ActiveObservers = {}
       /\ observerCurrent = NoObserver
       /\ cleanup = NoObserver
       /\ entry = NoEntry

\* the effect has run at least twice, each time with an absent target
C12_Witness ==
  /\ pc = "idle"
  /\ Len(observers) = 0
  /\ elementRef # NoRef
  /\ nodeOf(elementRef, refCurrent) = NoNode
  /\ \E r \in Refs : refCurrent[r] # NoNode

\* a step that delivers the load event of the mounted high-res <img>
LoadStep == ~highResLoadFired /\ highResLoadFired'

\* C13: isLoaded changes only in a step that delivers the load event (so it
\* stays false if that event never arrives); delivering snapshots, running
\* the effect, rendering and unmounting leave it unchanged, and the load
\* event leaves entry and the observers unchanged.
C13_LoadedAndVisibilityIndependent ==
  [][/\ (isLoaded' # isLoaded) => LoadStep
     /\ LoadStep => UNCHANGED <<entry, observers, observerCurrent, cleanup>>
    ]_vars

\* loaded, then rebound to an absent target: the observation is gone and
\* isLoaded is still true
C13_Witness ==
  /\ isLoaded
  /\ Disposed
  /\ Len(observers) >= 1
  /\ ~highResLoadFired

\* C15 (as stated): once the effects are flushed and the ref holds an
\* element, every observer that is still watching watches that element.
C15_ObservedIsCurrentTarget ==
  (pc = "idle" /\ nodeOf(elementRef, refCurrent) # NoNode)
    => \A i \in ActiveObservers :
         observers[i].target = nodeOf(elementRef, refCurrent)

\* C16 (as stated): once the effects are flushed and the ref holds a real
\* element, an observer is watching that element, also when the effect had
\* run while the ref was still empty.
C16_LateTargetIsObserved ==
  (pc = "idle" /\ nodeOf(elementRef, refCurrent) # NoNode)
    => \E i \in ActiveObservers :
         observers[i].target = nodeOf(elementRef, refCurrent)

\* C17: an effect run that finds the ref empty after an element had been
\* observed disconnects the previous observer and registers no cleanup:
\* no observer is watching afterwards.
C17_BindAbsentDisposes ==
  [][(/\ pc = "effectPending"
      /\ pc' = "idle"
      /\ nodeOf(elementRef, refCurrent) = NoNode)
     => /\ ActiveIn(observers') = {}
        /\ cleanup' = NoObserver
    ]_vars

C17_Witness ==
  /\ Disposed
  /\ Len(observers) >= 1
  /\ nodeOf(elementRef, refCurrent) = NoNode
  /\ entry # NoEntry
  /\ ~isLoaded

\* C19: isLoaded goes from false to true only in a step taken while the
\* component is mounted and isVisible is true.
C19_LoadOnlyWhileVisible ==
  [][(~isLoaded /\ isLoaded') => (pc # "unmounted" /\ isVisible(entry))]_vars

C19_Witness ==
  /\ isLoaded
  /\ highResLoadFired
  /\ isVisible(entry)
  /\ pc = "effectPending"

\* C14: handleImageOnLoad is idempotent: applying it twice gives what
\* applying it once gives, a load event always leaves isLoaded true, and a
\* load event delivered while isLoaded is already true changes nothing of
\* the component's state.
C14_MarkLoadedIdempotent ==
  /\ [](handleImageOnLoad(handleImageOnLoad(isLoaded))
          = handleImageOnLoad(isLoaded))
  /\ [][LoadStep
          => /\ isLoaded'
             /\ isLoaded => UNCHANGED <<isLoaded, entry, observers,
                                        observerCurrent, cleanup, pc>>
       ]_vars

\* the load event has been delivered a second time
C14_Witness ==
  /\ reloaded
  /\ isLoaded
  /\ highResLoadFired

\* C18: after every delivery to the mounted component entry is the first
\* snapshot of the delivered batch, whatever the later snapshots are, and
\* isVisible is that first snapshot's isIntersecting.
C18_FirstSnapshotKept ==
  (pc # "unmounted" /\ lastDelivered.first # NoEntry)
    => /\ entry = lastDelivered.first
       /\ isVisible(entry) = lastDelivered.first.isIntersecting

\* the last batch ended with a snapshot that differs from its first one
C18_Witness ==
  /\ pc # "unmounted"
  /\ lastDelivered.first # NoEntry
  /\ lastDelivered.last # lastDelivered.first
  /\ entry = lastDelivered.first
  /\ ~isVisible(entry)

====
